---------------------------- MODULE Spec2Model ----------------------------
(***************************************************************************)
(* Model of daily_qqq_fetch_all_timeframe_data.py: the incremental update  *)
(* of one (ticker, timeframe) CSV file across successive invocations of    *)
(* the script (Spec), and one invocation over every pair of tickers x      *)
(* configs (SpecMatrix).                                                   *)
(*                                                                         *)
(* Time is counted in minutes of US/Eastern wall-clock time since          *)
(* 2000-01-01 00:00, so a timestamp before year 2000 is a negative number. *)
(* A price is counted in thousandths, so rounding to 2 decimals is visible.*)
(* The five value columns Open/High/Low/Close/Volume of a row are one      *)
(* number v: the program never treats them differently from one another.   *)
(*                                                                         *)
(* A Date cell is a record [k, t]:                                         *)
(*   k = "d"   the string 'YYYY-MM-DD'            (t = midnight of the day)*)
(*   k = "dt"  the string 'YYYY-MM-DD HH:MM:SS'                            *)
(*   k = "bad" any other string (does not parse as a timestamp)            *)
(*   k = "ts"  an in-memory pandas Timestamp (datetime64), not a string    *)
(***************************************************************************)
EXTENDS Integers, Sequences, FiniteSets, TLC

VARIABLES
    ticker,       \* element of tickers: the symbol of the pair
    label,        \* key of configs: the timeframe of the pair
    now,          \* datetime.now(ET) of the current invocation (minutes)
    dst,          \* TRUE when now is in daylight-saving time (EDT)
    remote,       \* the provider's table for the pair: sequence of [t, v]
    file,         \* the pair's CSV file on disk
    run,          \* number of the current invocation of the script
    pc,           \* position inside the loop body of the pair
    last_date,    \* result of get_last_date_or_none: None or Some(t)
    start_date,   \* start_date of the loop body (a datetime), or None
    end_date,     \* end_date of the loop body (a datetime), or None
    request,      \* None, or Some of the start/end strings given to yf.download
                  \* and whether the provider answered (ok)
    fetched,      \* new_data as returned by fetch_new_data
    new_data,     \* new_data after line 207-212 (what merge receives)
    existing_df,  \* None or Some([header, rows]) read at line 219
    combined,     \* result of merge_and_deduplicate
    mergePath,    \* which return of merge_and_deduplicate was taken
    outcome,      \* how the loop body ended for the pair in this invocation
    fileAtStart,  \* the file as it was when the invocation reached the pair
    fileAfter,    \* history: per finished invocation, the file it left,
                  \* whether the provider answered, the merge's return,
                  \* and the cursor the invocation started with
    report,       \* what save_and_verify_data printed, or "none"
    visited       \* history: the pairs whose loop body has been left, in order

vars == <<ticker, label, now, dst, remote, file, run, pc, last_date,
          start_date, end_date, request, fetched, new_data, existing_df,
          combined, mergePath, outcome, fileAtStart, fileAfter, report, visited>>

---------------------------------------------------------------------------
(* Bounds of the model *)
MaxFileRows == 2
MaxRemoteRows == 2
MaxRuns == 2
MaxUnusableFileRows == 1
MaxPairRows == 1

---------------------------------------------------------------------------
(* Python values *)
None == <<>>
Some(x) == <<x>>

MinutesPerDay == 24 * 60
Day(t) == t \div MinutesPerDay
MinuteOfDay(t) == t % MinutesPerDay
Days(n) == n * MinutesPerDay

SetMax(S) == CHOOSE x \in S : \A y \in S : y <= x

(* tickers, line 17 *)
tickers == <<"QQQ", "AAPL", "XLK">>

(* configs, lines 22-41 *)
Labels == {"daily_10y", "4h_729d", "weekly_10y"}

(* configs.items(): the keys in the order of the dict literal *)
ConfigOrder == <<"daily_10y", "4h_729d", "weekly_10y">>

Interval(lb) ==
    CASE lb = "daily_10y" -> "1d"
      [] lb = "4h_729d" -> "4h"
      [] lb = "weekly_10y" -> "1wk"

MaxDays(lb) ==
    CASE lb = "daily_10y" -> 3650
      [] lb = "4h_729d" -> 729
      [] lb = "weekly_10y" -> 3650

OverlapDays(lb) ==
    CASE lb = "daily_10y" -> 2
      [] lb = "4h_729d" -> 1
      [] lb = "weekly_10y" -> 7

ExpectedColumns == {"Date", "Open", "High", "Low", "Close", "Volume"}

(* timedelta(days=729) of line 197 *)
YahooLimitDays == 729

(* last_date.year < 2000, line 77: minute 0 is 2000-01-01 00:00 *)
SanityFloor == 0

---------------------------------------------------------------------------
(* Conversions *)

(* format_date: dt.strftime('%Y-%m-%d'): the day, the time of day is lost *)
format_date(dt) == Day(dt)

(* DataFrame.round(2) and float_format='%.2f', on thousandths *)
Round2(v) == ((v + 5) \div 10) * 10

(* pd.to_datetime(col, errors='coerce', format=...) of the reader: the     *)
(* format must match the whole string; the result is None (NaT) otherwise  *)
ParseDate(cell, interval) ==
    IF interval = "4h"
    THEN IF cell.k = "dt" THEN Some(cell.t) ELSE None
    ELSE IF cell.k = "d" THEN Some(cell.t) ELSE None

(* .dt.strftime of lines 122-125 *)
Strftime(t, interval) ==
    IF interval = "4h"
    THEN [k |-> "dt", t |-> t]
    ELSE [k |-> "d", t |-> Days(Day(t))]

(* pd.to_datetime(new_data['Date'], errors='coerce') of line 207, without a *)
(* format: both string shapes parse                                         *)
ToDatetime(cell) ==
    IF cell.k \in {"d", "dt", "ts"} THEN [k |-> "ts", t |-> cell.t] ELSE cell

(* A datetime64 column rendered as strings (astype(str) at line 143, to_csv *)
(* at line 159): pandas drops the time when every value of the column is at *)
(* midnight, and prints it for every value otherwise. Strings stay as they  *)
(* are.                                                                     *)
DatesOnly(rows) ==
    \A i \in 1..Len(rows) :
        rows[i].Date.k = "ts" => MinuteOfDay(rows[i].Date.t) = 0

DateAsStr(rows) ==
    LET only == DatesOnly(rows)
        str(c) == IF c.k # "ts" THEN c
                  ELSE IF only THEN [k |-> "d", t |-> c.t]
                  ELSE [k |-> "dt", t |-> c.t]
    IN [i \in 1..Len(rows) |-> [Date |-> str(rows[i].Date), v |-> rows[i].v]]

(* Order of two Date strings (sort_values compares str objects): digits of  *)
(* the date first; 'YYYY-MM-DD' is a proper prefix of 'YYYY-MM-DD HH:MM:SS' *)
(* of the same day and sorts before it; a string that is no date starts     *)
(* with a letter and sorts after every date                                 *)
StrLess(a, b) ==
    IF a.k = "bad" THEN FALSE
    ELSE IF b.k = "bad" THEN TRUE
    ELSE LET key(c) == 2 * c.t + (IF c.k = "dt" THEN 1 ELSE 0)
         IN key(a) < key(b)

---------------------------------------------------------------------------
(* 3. File reading and date checking *)

(* now >= market_open, lines 80-84. now comes from datetime.now(ET) and     *)
(* carries the offset in force (EST -5:00, EDT -4:00). market_open is built *)
(* by today.replace(hour=9, minute=30, tzinfo=ET): replace() attaches the   *)
(* pytz zone object itself, whose offset is the zone's local mean time,     *)
(* -4:56. The comparison of the two aware datetimes is made in UTC.         *)
NowAtOrAfterMarketOpen(nw, dstFlag) ==
    LET nowOffset == IF dstFlag THEN 4 * 60 ELSE 5 * 60
        lmtOffset == 4 * 60 + 56
        market_open == Days(Day(nw)) + 9 * 60 + 30
    IN nw + nowOffset >= market_open + lmtOffset

(* the timestamps left after to_datetime(errors='coerce') and dropna *)
ValidDates(rows, interval) ==
    {ParseDate(rows[i].Date, interval)[1] :
        i \in {j \in 1..Len(rows) : ParseDate(rows[j].Date, interval) # None}}

(* get_last_date_or_none without the year-2000 check of lines 77-79 *)
get_last_date_unchecked_year(f, interval, nw, dstFlag) ==
    IF ~f.exists THEN None
    ELSE IF ~f.readable THEN None
    ELSE IF ~(ExpectedColumns \subseteq f.header) THEN None
    ELSE LET dates == ValidDates(f.rows, interval) IN
         IF dates = {} THEN None
         ELSE LET last == SetMax(dates)
                  today == Day(nw)
              IN IF interval = "4h"
                 THEN IF Day(last) < today
                         \/ (Day(last) = today /\ NowAtOrAfterMarketOpen(nw, dstFlag))
                      THEN Some(last)
                      ELSE None
                 ELSE IF Day(last) < today THEN Some(last) ELSE None

get_last_date_or_none(f, interval, nw, dstFlag) ==
    IF ~f.exists THEN None
    ELSE IF ~f.readable THEN None
    ELSE IF ~(ExpectedColumns \subseteq f.header) THEN None
    ELSE LET dates == ValidDates(f.rows, interval) IN
         IF dates = {} THEN None
         ELSE LET last == SetMax(dates)
                  today == Day(nw)
              IN IF last < SanityFloor THEN None
                 ELSE IF interval = "4h"
                 THEN IF Day(last) < today
                         \/ (Day(last) = today /\ NowAtOrAfterMarketOpen(nw, dstFlag))
                      THEN Some(last)
                      ELSE None
                 ELSE IF Day(last) < today THEN Some(last) ELSE None

---------------------------------------------------------------------------
(* 7. Main loop: the fetch window, lines 187-201 *)

(* StartDate with the cold window taken from overlap_days *)
StartDateColdOverlap(last, fileExists, lb, nw) ==
    LET computed ==
            IF last = None THEN nw - Days(OverlapDays(lb))
            ELSE last[1] - Days(OverlapDays(lb))
        max_start == nw - Days(YahooLimitDays)
    IN IF Interval(lb) = "4h" /\ computed < max_start THEN max_start ELSE computed

(* StartDate without the overlap: the window starts at the cursor *)
StartDateNoOverlap(last, fileExists, lb, nw) ==
    LET computed ==
            IF last = None THEN nw - Days(MaxDays(lb)) ELSE last[1]
        max_start == nw - Days(YahooLimitDays)
    IN IF Interval(lb) = "4h" /\ computed < max_start THEN max_start ELSE computed

(* StartDate without lines 196-200 *)
StartDateUnclamped(last, fileExists, lb, nw) ==
    IF last = None THEN nw - Days(MaxDays(lb))
    ELSE last[1] - Days(OverlapDays(lb))

StartDate(last, fileExists, lb, nw) ==
    LET computed ==
            IF last = None /\ ~fileExists THEN nw - Days(MaxDays(lb))
            ELSE IF last = None THEN nw - Days(MaxDays(lb))
            ELSE last[1] - Days(OverlapDays(lb))
        max_start == nw - Days(YahooLimitDays)
    IN IF Interval(lb) = "4h" /\ computed < max_start THEN max_start ELSE computed

EndDate(nw) == nw + Days(1)

---------------------------------------------------------------------------
(* 4. Data fetching *)

(* yf.download(start=, end=): the provider's rows of the days in            *)
(* [start, end), in the provider's order                                    *)
Download(source, start, end) ==
    SelectSeq(source, LAMBDA r : start <= Day(r.t) /\ Day(r.t) < end)

(* fetch_new_data without the try/except and the empty check: the rows of  *)
(* the window are returned whatever the provider did                       *)
fetch_new_data_unguarded(source, start, end, interval, ok) ==
    LET data == Download(source, format_date(start), format_date(end))
    IN [i \in 1..Len(data) |->
           [Date |-> Strftime(data[i].t, interval), v |-> Round2(data[i].v)]]

(* ok = FALSE: yf.download raised, or returned nothing *)
fetch_new_data(source, start, end, interval, ok) ==
    IF ~ok THEN <<>>
    ELSE LET data == Download(source, format_date(start), format_date(end))
         IN [i \in 1..Len(data) |->
                [Date |-> Strftime(data[i].t, interval), v |-> Round2(data[i].v)]]

---------------------------------------------------------------------------
(* 7. Main loop: the post-fetch filter, lines 207-209 *)

(* lines 207-209 without the filter: every fetched row goes to the merge *)
FilterNewKeepsAll(data, last) ==
    [i \in 1..Len(data) |-> [Date |-> ToDatetime(data[i].Date), v |-> data[i].v]]

(* the filter of line 209 with >= in place of > *)
FilterNewInclusive(data, last) ==
    LET dated == [i \in 1..Len(data) |->
                     [Date |-> ToDatetime(data[i].Date), v |-> data[i].v]]
    IN IF last = None THEN dated
       ELSE SelectSeq(dated, LAMBDA r : r.Date.k = "ts" /\ r.Date.t >= last[1])

FilterNew(data, last) ==
    LET dated == [i \in 1..Len(data) |->
                     [Date |-> ToDatetime(data[i].Date), v |-> data[i].v]]
    IN IF last = None THEN dated
       ELSE SelectSeq(dated, LAMBDA r : r.Date.k = "ts" /\ r.Date.t > last[1])

---------------------------------------------------------------------------
(* 5. Data merging and deduplication *)

RECURSIVE DropDuplicatesFirst(_)
(* drop_duplicates with keep='first' *)
DropDuplicatesFirst(rows) ==
    IF rows = <<>> THEN <<>>
    ELSE <<rows[1]>> \o DropDuplicatesFirst(
             SelectSeq(Tail(rows), LAMBDA r : r.Date # rows[1].Date))

RECURSIVE DropDuplicatesLast(_)
(* drop_duplicates(subset=['Date'], keep='last') *)
DropDuplicatesLast(rows) ==
    IF rows = <<>> THEN <<>>
    ELSE IF \E j \in 2..Len(rows) : rows[j].Date = rows[1].Date
    THEN DropDuplicatesLast(Tail(rows))
    ELSE <<rows[1]>> \o DropDuplicatesLast(Tail(rows))

(* r placed after every row of the sorted s that is not greater than it *)
InsertByDate(s, r) ==
    LET before == {i \in 1..Len(s) : ~StrLess(r.Date, s[i].Date)}
        n == IF before = {} THEN 0 ELSE SetMax(before)
    IN SubSeq(s, 1, n) \o <<r>> \o SubSeq(s, n + 1, Len(s))

RECURSIVE SortByDate(_)
(* sort_values(by="Date") *)
SortByDate(rows) ==
    IF rows = <<>> THEN <<>>
    ELSE InsertByDate(SortByDate(SubSeq(rows, 1, Len(rows) - 1)), rows[Len(rows)])

(* raises = TRUE: an exception is raised inside the try block, lines 137-149 *)
MergePath(existing, raises) ==
    IF existing = None THEN "no_existing"
    ELSE IF ~(ExpectedColumns \subseteq existing[1].header) THEN "bad_columns"
    ELSE IF raises THEN "exception"
    ELSE "merged"

(* merge_and_deduplicate that leaves the new rows out of a valid table *)
merge_returns_existing_only(existing, new, raises) ==
    IF existing = None THEN new
    ELSE IF ~(ExpectedColumns \subseteq existing[1].header) THEN new
    ELSE IF raises THEN new
    ELSE SortByDate(DropDuplicatesLast(DateAsStr(existing[1].rows)))

(* merge_and_deduplicate that returns the new rows alone on every path *)
merge_returns_new_only(existing, new, raises) == new

(* merge_and_deduplicate without the check of the existing columns *)
merge_without_column_check(existing, new, raises) ==
    IF existing = None THEN new
    ELSE IF raises THEN new
    ELSE SortByDate(DropDuplicatesLast(DateAsStr(existing[1].rows) \o DateAsStr(new)))

merge_and_deduplicate(existing, new, raises) ==
    IF existing = None THEN new
    ELSE IF ~(ExpectedColumns \subseteq existing[1].header) THEN new
    ELSE IF raises THEN new
    ELSE SortByDate(DropDuplicatesLast(DateAsStr(existing[1].rows) \o DateAsStr(new)))

---------------------------------------------------------------------------
(* 6. Data saving *)

(* combined.to_csv(filename, index=False, float_format='%.2f') *)
to_csv(rows) ==
    LET str == DateAsStr(rows)
    IN [i \in 1..Len(str) |-> [Date |-> str[i].Date, v |-> Round2(str[i].v)]]

(* save_and_verify_data that puts the previous file back when the         *)
(* read-back fails                                                         *)
save_with_rollback(rows, f, readBack) ==
    IF ~readBack THEN f
    ELSE [exists |-> TRUE,
          readable |-> IF f.exists THEN f.readable ELSE TRUE,
          writable |-> IF f.exists THEN f.writable ELSE TRUE,
          header |-> ExpectedColumns,
          rows |-> to_csv(rows)]

(* the file that save_and_verify_data leaves. readBack = FALSE: the         *)
(* pd.read_csv of line 160 raises; the except of line 170 only prints       *)
save_and_verify_data(rows, f, readBack) ==
    [exists |-> TRUE,
     readable |-> IF f.exists THEN f.readable ELSE TRUE,
     writable |-> IF f.exists THEN f.writable ELSE TRUE,
     header |-> ExpectedColumns,
     rows |-> to_csv(rows)]

(* which of the three messages of lines 162, 168, 171 is printed *)
VerifyReport(written, readBack) ==
    IF ~readBack THEN "verify_failed"
    ELSE IF ~(ExpectedColumns \subseteq written.header) THEN "invalid_columns"
    ELSE "verified"

---------------------------------------------------------------------------
(* The states the script can start from *)

(* the day of the invocation: a day of the year 2024 *)
Today == 24 * 365 + 200

MarketOpenMinute == 9 * 60 + 30
AfternoonBarMinute == 13 * 60 + 30

(* moments of the day at which the script is started *)
NowChoices(lb) ==
    IF Interval(lb) = "4h"
    THEN {Days(Today) + 9 * 60 + 28, Days(Today) + 10 * 60}
    ELSE {Days(Today) + 18 * 60}

DstChoices(lb) == IF Interval(lb) = "4h" THEN BOOLEAN ELSE {FALSE}

(* timestamps of the recent bars of the timeframe *)
BarTimes(lb) ==
    CASE Interval(lb) = "1d" -> {Days(Today - 1), Days(Today)}
      [] Interval(lb) = "4h" -> {Days(Today - 1) + AfternoonBarMinute,
                                 Days(Today) + MarketOpenMinute}
      [] Interval(lb) = "1wk" -> {Days(Today - 7), Days(Today)}

BarMinute(lb) == IF Interval(lb) = "4h" THEN MarketOpenMinute ELSE 0

(* a bar older than the provider's 4h limit *)
OldBarTimes(lb) == {Days(Today - YahooLimitDays - 1) + BarMinute(lb)}

(* a timestamp of the year 1999 *)
Year1999Times(lb) == {Days(0 - 1) + BarMinute(lb)}

BadDate == [k |-> "bad", t |-> 0]

DateString(t, lb) == [k |-> IF Interval(lb) = "4h" THEN "dt" ELSE "d", t |-> t]

(* prices in thousandths: 100.500, 100.504, 100.750 *)
FileValues == {100500, 100504}
RemoteValues == {100504, 100750}

(* rows of an existing file: the previous bar with either price, the bar   *)
(* of today and the old bar, and rows whose Date is of the year 1999 or no  *)
(* date at all                                                              *)
FileRows(lb) ==
    {[Date |-> DateString(t, lb), v |-> v] :
        t \in BarTimes(lb) \ {Days(Today) + BarMinute(lb)}, v \in FileValues}
    \cup {[Date |-> DateString(t, lb), v |-> 100500] :
             t \in {Days(Today) + BarMinute(lb)} \cup OldBarTimes(lb)
                   \cup Year1999Times(lb)}
    \cup {[Date |-> BadDate, v |-> 100500]}

(* rows of the provider: the previous bar with either price (the second is  *)
(* a revision of what a file holds), and the bar of today                   *)
RemoteRows(lb) ==
    {[t |-> t, v |-> v] : t \in BarTimes(lb) \ {Days(Today) + BarMinute(lb)},
                          v \in RemoteValues}
    \cup {[t |-> Days(Today) + BarMinute(lb), v |-> 100504]}

SeqsUpTo(S, n) == UNION {[1..m -> S] : m \in 0..n}

NoFile == [exists |-> FALSE, readable |-> FALSE, writable |-> FALSE,
           header |-> {}, rows |-> <<>>]

(* no file; a readable, writable file with the required columns; and the   *)
(* files that lack a permission or a column, with fewer rows                *)
FileStates(lb) ==
    LET File(r, w, h, rs) == [exists |-> TRUE, readable |-> r, writable |-> w,
                              header |-> h, rows |-> rs]
    IN {NoFile}
       \cup {File(TRUE, TRUE, ExpectedColumns, rs) :
                 rs \in SeqsUpTo(FileRows(lb), MaxFileRows)}
       \cup {File(TRUE, TRUE, ExpectedColumns \ {"Volume"}, rs) :
                 rs \in SeqsUpTo(FileRows(lb), MaxUnusableFileRows)}
       \cup {File(p[1], p[2], ExpectedColumns, rs) :
                 p \in {<<TRUE, FALSE>>, <<FALSE, TRUE>>},
                 rs \in SeqsUpTo(FileRows(lb), MaxUnusableFileRows)}

---------------------------------------------------------------------------
(* The state machine *)

Init ==
    /\ ticker = tickers[1]
    /\ label \in Labels
    /\ now \in NowChoices(label)
    /\ dst \in DstChoices(label)
    /\ remote \in SeqsUpTo(RemoteRows(label), MaxRemoteRows)
    /\ file \in FileStates(label)
    /\ run = 1
    /\ pc = "read"
    /\ last_date = None
    /\ start_date = None
    /\ end_date = None
    /\ request = None
    /\ fetched = <<>>
    /\ new_data = <<>>
    /\ existing_df = None
    /\ combined = <<>>
    /\ mergePath = "none"
    /\ outcome = "pending"
    /\ fileAtStart = file
    /\ fileAfter = <<>>
    /\ report = "none"
    /\ visited = <<>>

(* the loop body is left for this pair (continue, or its last line) *)
Leave(how, f, ok) ==
    /\ pc' = "done"
    /\ outcome' = how
    /\ fileAfter' = Append(fileAfter, [file |-> f, ok |-> ok, merge |-> mergePath,
                                       cursor |-> last_date])

(* line 186 *)
ReadCursor ==
    /\ pc = "read"
    /\ last_date' = get_last_date_or_none(file, Interval(label), now, dst)
    /\ pc' = "window"
    /\ UNCHANGED <<ticker, visited, report, label, now, dst, remote, file, run, start_date, end_date,
                   request, fetched, new_data, existing_df, combined,
                   mergePath, outcome, fileAtStart, fileAfter>>

(* lines 187-201 *)
ComputeWindow ==
    /\ pc = "window"
    /\ start_date' = Some(StartDate(last_date, file.exists, label, now))
    /\ end_date' = Some(EndDate(now))
    /\ pc' = "fetch"
    /\ UNCHANGED <<ticker, visited, report, label, now, dst, remote, file, run, last_date, request,
                   fetched, new_data, existing_df, combined, mergePath,
                   outcome, fileAtStart, fileAfter>>

(* lines 203-206 *)
Fetch ==
    /\ pc = "fetch"
    /\ \E ok \in BOOLEAN :
        /\ request' = Some([start |-> format_date(start_date[1]),
                            end |-> format_date(end_date[1]),
                            ok |-> ok])
        /\ fetched' = fetch_new_data(remote, start_date[1], end_date[1],
                                     Interval(label), ok)
        /\ IF fetched' = <<>>
           THEN Leave("no_data", file, ok)
           ELSE pc' = "filter" /\ UNCHANGED <<outcome, fileAfter>>
    /\ UNCHANGED <<ticker, visited, report, label, now, dst, remote, file, run, last_date, start_date,
                   end_date, new_data, existing_df, combined, mergePath,
                   fileAtStart>>

(* lines 207-209 without the empty check of lines 210-212 *)
FilterWithoutSkip ==
    /\ pc = "filter"
    /\ new_data' = FilterNew(fetched, last_date)
    /\ pc' = "load"
    /\ UNCHANGED <<ticker, visited, report, label, now, dst, remote, file, run,
                   last_date, start_date, end_date, request, fetched,
                   existing_df, combined, mergePath, outcome, fileAtStart,
                   fileAfter>>

(* lines 207-212 *)
Filter ==
    /\ pc = "filter"
    /\ new_data' = FilterNew(fetched, last_date)
    /\ IF last_date # None /\ new_data' = <<>>
       THEN Leave("no_new_dates", file, request[1].ok)
       ELSE pc' = "load" /\ UNCHANGED <<outcome, fileAfter>>
    /\ UNCHANGED <<ticker, visited, report, label, now, dst, remote, file, run, last_date, start_date,
                   end_date, request, fetched, existing_df, combined,
                   mergePath, fileAtStart>>

(* lines 213-221. When pd.read_csv raises on a file that cannot be read,    *)
(* the handler of line 220 formats its message with existing_df.head():     *)
(* the loop is module-level code, so 'existing_df' is in locals(), and      *)
(* existing_df is the None of line 213. The AttributeError is raised inside *)
(* the handler, nothing catches it, and the invocation ends there.          *)
LoadExisting ==
    /\ pc = "load"
    /\ IF file.exists /\ ~file.writable
       THEN /\ Leave("no_write_permission", file, request[1].ok)
            /\ UNCHANGED existing_df
       ELSE IF file.exists /\ ~file.readable
       THEN /\ Leave("uncaught_exception", file, request[1].ok)
            /\ UNCHANGED existing_df
       ELSE /\ existing_df' = IF file.exists
                              THEN Some([header |-> file.header, rows |-> file.rows])
                              ELSE None
            /\ pc' = "merge"
            /\ UNCHANGED <<outcome, fileAfter>>
    /\ UNCHANGED <<ticker, visited, report, label, now, dst, remote, file, run, last_date, start_date,
                   end_date, request, fetched, new_data, combined, mergePath,
                   fileAtStart>>

(* line 222 *)
Merge ==
    /\ pc = "merge"
    /\ \E raises \in BOOLEAN :
        /\ raises => MergePath(existing_df, FALSE) = "merged"
        /\ combined' = merge_and_deduplicate(existing_df, new_data, raises)
        /\ mergePath' = MergePath(existing_df, raises)
    /\ pc' = "save"
    /\ UNCHANGED <<ticker, visited, report, label, now, dst, remote, file, run, last_date, start_date,
                   end_date, request, fetched, new_data, existing_df, outcome,
                   fileAtStart, fileAfter>>

(* line 223 *)
Save ==
    /\ pc = "save"
    /\ \E readBack \in BOOLEAN :
        /\ file' = save_and_verify_data(combined, file, readBack)
        /\ report' = VerifyReport(file', readBack)
    /\ Leave("saved", file', request[1].ok)
    /\ UNCHANGED <<ticker, visited, label, now, dst, remote, run, last_date, start_date,
                   end_date, request, fetched, new_data, existing_df, combined,
                   mergePath, fileAtStart>>

(* the script is started again: the pair is reached with the file the       *)
(* previous invocation left, the provider's data and the clock unchanged    *)
NextRun ==
    /\ pc = "done"
    /\ run < MaxRuns
    /\ run' = run + 1
    /\ pc' = "read"
    /\ last_date' = None
    /\ start_date' = None
    /\ end_date' = None
    /\ request' = None
    /\ fetched' = <<>>
    /\ new_data' = <<>>
    /\ existing_df' = None
    /\ combined' = <<>>
    /\ mergePath' = "none"
    /\ outcome' = "pending"
    /\ fileAtStart' = file
    /\ report' = "none"
    /\ UNCHANGED <<ticker, visited, label, now, dst, remote, file, fileAfter>>

Next ==
    \/ ReadCursor
    \/ ComputeWindow
    \/ Fetch
    \/ Filter
    \/ LoadExisting
    \/ Merge
    \/ Save
    \/ NextRun

Spec == Init /\ [][Next]_vars

---------------------------------------------------------------------------
(* One invocation over the whole matrix: for ticker in tickers, for label   *)
(* in configs.items(), lines 180-225                                        *)

IndexIn(seq, x) == CHOOSE i \in 1..Len(seq) : seq[i] = x

(* the pairs in the order of the two nested loops *)
AllPairs ==
    [i \in 1..(Len(tickers) * Len(ConfigOrder)) |->
        <<tickers[((i - 1) \div Len(ConfigOrder)) + 1],
          ConfigOrder[((i - 1) % Len(ConfigOrder)) + 1]>>]

LastPair == <<ticker, label>> = AllPairs[Len(AllPairs)]

(* the pair the loops reach after <<tk, lb>> *)
PairAfter(tk, lb) ==
    IF IndexIn(ConfigOrder, lb) < Len(ConfigOrder)
    THEN <<tk, ConfigOrder[IndexIn(ConfigOrder, lb) + 1]>>
    ELSE <<tickers[IndexIn(tickers, tk) + 1], ConfigOrder[1]>>

(* the files and provider tables a pair of the matrix is reached with *)
PairFiles(lb) == {f \in FileStates(lb) : Len(f.rows) <= MaxPairRows}
PairRemotes(lb) == SeqsUpTo(RemoteRows(lb), MaxPairRows)

MatrixInit ==
    /\ ticker = tickers[1]
    /\ label = ConfigOrder[1]
    /\ now \in NowChoices(label)
    /\ dst \in DstChoices(label)
    /\ remote \in PairRemotes(label)
    /\ file \in PairFiles(label)
    /\ run = 1
    /\ pc = "read"
    /\ last_date = None
    /\ start_date = None
    /\ end_date = None
    /\ request = None
    /\ fetched = <<>>
    /\ new_data = <<>>
    /\ existing_df = None
    /\ combined = <<>>
    /\ mergePath = "none"
    /\ outcome = "pending"
    /\ fileAtStart = file
    /\ fileAfter = <<>>
    /\ report = "none"
    /\ visited = <<>>

(* continue, or the end of the loop body: the loops take the next pair.    *)
(* An exception that nothing catches ends the invocation instead.          *)
NextPair ==
    /\ pc = "done"
    /\ outcome # "uncaught_exception"
    /\ ~LastPair
    /\ visited' = Append(visited, <<ticker, label>>)
    /\ ticker' = PairAfter(ticker, label)[1]
    /\ label' = PairAfter(ticker, label)[2]
    /\ now' \in NowChoices(label')
    /\ dst' \in DstChoices(label')
    /\ remote' \in PairRemotes(label')
    /\ file' \in PairFiles(label')
    /\ fileAtStart' = file'
    /\ pc' = "read"
    /\ last_date' = None
    /\ start_date' = None
    /\ end_date' = None
    /\ request' = None
    /\ fetched' = <<>>
    /\ new_data' = <<>>
    /\ existing_df' = None
    /\ combined' = <<>>
    /\ mergePath' = "none"
    /\ outcome' = "pending"
    /\ fileAfter' = <<>>
    /\ report' = "none"
    /\ UNCHANGED run

(* line 225: the loops are over, the final message is printed *)
Summary ==
    /\ pc = "done"
    /\ outcome # "uncaught_exception"
    /\ LastPair
    /\ visited' = Append(visited, <<ticker, label>>)
    /\ pc' = "end"
    /\ UNCHANGED <<ticker, label, now, dst, remote, file, run, last_date,
                   start_date, end_date, request, fetched, new_data,
                   existing_df, combined, mergePath, outcome, fileAtStart,
                   fileAfter, report>>

NextMatrix ==
    \/ ReadCursor
    \/ ComputeWindow
    \/ Fetch
    \/ Filter
    \/ LoadExisting
    \/ Merge
    \/ Save
    \/ NextPair
    \/ Summary

(* the interpreter always executes the next statement *)
SpecMatrix == MatrixInit /\ [][NextMatrix]_vars /\ WF_vars(NextMatrix)

---------------------------------------------------------------------------
(* Vocabulary of the properties *)

DatesOf(rows) == {rows[i].Date : i \in 1..Len(rows)}
RowsAt(rows, d) == SelectSeq(rows, LAMBDA r : r.Date = d)
LastRowAt(rows, d) == RowsAt(rows, d)[Len(RowsAt(rows, d))]

Saved == pc = "done" /\ outcome = "saved"

(* the file has the required columns and can be read *)
StructurallyValid(f) ==
    f.exists /\ f.readable /\ ExpectedColumns \subseteq f.header

(* structurally valid, with a parseable timestamp not before year 2000 *)
ValidWithLast(f) ==
    /\ StructurallyValid(f)
    /\ ValidDates(f.rows, Interval(label)) # {}
    /\ SetMax(ValidDates(f.rows, Interval(label))) >= 0

LastOf(f) == SetMax(ValidDates(f.rows, Interval(label)))

(* what the run persists when it starts without a file and the provider     *)
(* answers with the rows resp                                               *)
ColdPersisted(resp) ==
    to_csv(merge_and_deduplicate(None, FilterNew(resp, None), FALSE))

(* C1: when the existing table's last row is at L, the cursor is L and the  *)
(* fetch returns a row at L and rows after L, the persisted table holds     *)
(* exactly one row at L, with the fetched values.                           *)
C1_RevisedRowPersisted ==
    (/\ Saved
     /\ mergePath = "merged"
     /\ last_date # None
     /\ fileAtStart.rows[Len(fileAtStart.rows)].Date
            = DateString(last_date[1], label)
     /\ DateString(last_date[1], label) \in DatesOf(fetched)
     /\ \E i \in 1..Len(fetched) : fetched[i].Date.t > last_date[1])
    => LET L == DateString(last_date[1], label)
       IN /\ Len(RowsAt(file.rows, L)) = 1
          /\ RowsAt(file.rows, L)[1].v = LastRowAt(fetched, L).v

(* the claim's description of a file that covers the present session *)
CoversPresentSession(f) ==
    /\ ValidWithLast(f)
    /\ IF Interval(label) = "4h"
       THEN /\ Day(LastOf(f)) = Day(now)
            /\ MinuteOfDay(now) < MarketOpenMinute
       ELSE Day(LastOf(f)) >= Day(now)

(* C2: when the file is structurally valid and its last timestamp covers    *)
(* the present session, the run performs no fetch and no write and leaves   *)
(* the file unchanged.                                                      *)
C2_UpToDateSkipsFetch ==
    CoversPresentSession(fileAtStart) => request = None /\ file = fileAtStart

(* C3: when the provider answers both runs from the same data (and no      *)
(* merge raises), the file after the second run equals the file after the   *)
(* first run.                                                               *)
C3_SecondRunChangesNothing ==
    (/\ Len(fileAfter) >= 2
     /\ fileAfter[1].ok /\ fileAfter[1].merge # "exception"
     /\ fileAfter[2].ok /\ fileAfter[2].merge # "exception")
    => fileAfter[2].file = fileAfter[1].file

(* C4: no two rows of a persisted table share a timestamp. *)
C4_NoDuplicateTimestamps ==
    Saved =>
        \A i, j \in 1..Len(file.rows) :
            file.rows[i].Date = file.rows[j].Date => i = j

(* C5: the rows of a persisted table are in strictly increasing timestamp   *)
(* order.                                                                   *)
C5_StrictlyAscending ==
    Saved =>
        \A i \in 1..(Len(file.rows) - 1) :
            StrLess(file.rows[i].Date, file.rows[i + 1].Date)

(* C6: merge_and_deduplicate of a structurally valid existing table and the *)
(* new rows returns, for every timestamp of the new rows, exactly one row,  *)
(* which carries the values of the new rows (of their last row at that      *)
(* timestamp), and for every timestamp of the existing table alone exactly  *)
(* one row with the existing values; it returns no other row.               *)
C6_NewWinsOnConflict ==
    (pc = "save" /\ mergePath = "merged")
    => LET old == existing_df[1].rows
           new == DateAsStr(new_data)
       IN /\ DatesOf(combined) = DatesOf(old) \cup DatesOf(new)
          /\ \A d \in DatesOf(combined) :
                /\ Len(RowsAt(combined, d)) = 1
                /\ RowsAt(combined, d)[1] =
                       IF d \in DatesOf(new) THEN LastRowAt(new, d)
                       ELSE LastRowAt(old, d)

(* a merge of an existing row at T with V1 and one new row at T with V2,    *)
(* V2 # V1, next to a timestamp that only one of the two tables holds       *)
C6_Witness ==
    /\ pc = "save"
    /\ mergePath = "merged"
    /\ \E d \in DatesOf(existing_df[1].rows) \cap DatesOf(DateAsStr(new_data)) :
          /\ Len(RowsAt(existing_df[1].rows, d)) = 1
          /\ Len(RowsAt(DateAsStr(new_data), d)) = 1
          /\ RowsAt(existing_df[1].rows, d)[1].v
                 # RowsAt(DateAsStr(new_data), d)[1].v
          /\ RowsAt(combined, d)[1].v = RowsAt(DateAsStr(new_data), d)[1].v
    /\ DatesOf(existing_df[1].rows) # DatesOf(DateAsStr(new_data))

MissesColumn(f) == f.exists /\ ~(ExpectedColumns \subseteq f.header)

(* C7: when the existing file misses a required column, the run has no      *)
(* cursor, requests the cold window, filters nothing out of the fetched     *)
(* rows, and, where the file can be written and the fetch brought rows,     *)
(* persists what a run without a file persists for the same rows.           *)
C7_MissingColumnIsColdFetch ==
    MissesColumn(fileAtStart) =>
        /\ last_date = None
        /\ request # None => request[1].start = Day(now) - MaxDays(label)
        /\ pc \in {"load", "merge", "save"} => new_data = FilterNew(fetched, None)
        /\ Saved => file.rows = ColdPersisted(fetched)
        /\ (pc = "done" /\ fetched # <<>> /\ fileAtStart.writable) => Saved

C7_Witness ==
    /\ MissesColumn(fileAtStart)
    /\ fileAtStart.rows # <<>>
    /\ Saved
    /\ file.rows = ColdPersisted(fetched)

(* the file has the required columns and fails the reader's content checks *)
ContentCorrupt(f) ==
    /\ StructurallyValid(f)
    /\ \/ ValidDates(f.rows, Interval(label)) = {}
       \/ SetMax(ValidDates(f.rows, Interval(label))) < 0

(* C8: when the existing file has the required columns and fails content    *)
(* validation, the persisted table holds only rows of the new fetch.        *)
C8_CorruptContentDiscarded ==
    (ContentCorrupt(fileAtStart) /\ Saved) =>
        /\ request[1].start = Day(now) - MaxDays(label)
        /\ \A i \in 1..Len(file.rows) :
              \E j \in 1..Len(fetched) : file.rows[i] = to_csv(fetched)[j]

(* C9: without an existing file, the start requested from the provider is   *)
(* now - 3650 days for daily and weekly and now - 729 days for 4h.          *)
C9_ColdFetchWindow ==
    (~fileAtStart.exists /\ request # None) =>
        request[1].start =
            CASE Interval(label) = "1d" -> Day(now) - 3650
              [] Interval(label) = "1wk" -> Day(now) - 3650
              [] Interval(label) = "4h" -> Day(now) - 729

C9_Witness ==
    /\ ~fileAtStart.exists
    /\ request # None
    /\ request[1].ok
    /\ fetched # <<>>

(* C10 as stated: with a cursor L, the start requested from the provider is *)
(* L - overlap (2 days daily, 1 day 4h, 7 days weekly).                     *)
C10_OverlapWindowUnclamped ==
    (last_date # None /\ request # None) =>
        request[1].start =
            CASE Interval(label) = "1d" -> Day(last_date[1]) - 2
              [] Interval(label) = "1wk" -> Day(last_date[1]) - 7
              [] Interval(label) = "4h" -> Day(last_date[1]) - 1

(* C10 amended: with a cursor L, the start requested from the provider is   *)
(* L - overlap, except that for 4h an L - overlap earlier than              *)
(* now - 729 days is replaced by now - 729 days.                            *)
C10_OverlapWindow ==
    (last_date # None /\ request # None) =>
        request[1].start =
            CASE Interval(label) = "1d" -> Day(last_date[1]) - 2
              [] Interval(label) = "1wk" -> Day(last_date[1]) - 7
              [] Interval(label) = "4h" ->
                    IF last_date[1] - Days(1) < now - Days(729)
                    THEN Day(now) - 729
                    ELSE Day(last_date[1]) - 1

C10_Witness ==
    /\ last_date # None
    /\ request # None
    /\ request[1].start = Day(last_date[1]) - OverlapDays(label)
    /\ fetched # <<>>

(* C11: when the provider raises or returns an empty result,               *)
(* fetch_new_data yields an empty table, the pair is skipped, nothing is   *)
(* written, and the pair's file, present or absent, is as it was before    *)
(* the run.                                                                *)
C11_FetchFailureLeavesStorage ==
    /\ (request # None /\ ~request[1].ok) =>
            /\ fetched = <<>>
            /\ pc = "done"
            /\ outcome = "no_data"
    /\ (request # None
        /\ Download(remote, request[1].start, request[1].end) = <<>>) =>
            /\ fetched = <<>>
            /\ pc = "done"
            /\ outcome = "no_data"
    /\ outcome = "no_data" =>
            /\ file = fileAtStart
            /\ new_data = <<>>
            /\ existing_df = None
            /\ combined = <<>>
            /\ mergePath = "none"

(* the provider raised on a request whose window holds rows, for a file    *)
(* that is present                                                         *)
C11_Witness ==
    /\ request # None
    /\ ~request[1].ok
    /\ Download(remote, request[1].start, request[1].end) # <<>>
    /\ fileAtStart.exists
    /\ fileAtStart.rows # <<>>
    /\ outcome = "no_data"

(* C12: whatever the outcomes of the pairs are (missing or corrupt file,   *)
(* fetch error, merge error, write or verify error), every pair of the     *)
(* matrix is processed exactly once, in the order of the loops, and the    *)
(* invocation reaches its final summary: it stops nowhere else.            *)
C12_StopsOnlyAtSummary ==
    (~ENABLED NextMatrix) => (pc = "end" /\ visited = AllPairs)

(* pd.read_csv of line 219 raises on the file *)
ReadOfExistingFails(f) == f.exists /\ ~f.readable

(* the loop body got past the three continue statements of lines 206-217 *)
ReachedTheMerge ==
    /\ pc = "done"
    /\ outcome \notin {"no_data", "no_new_dates", "no_write_permission"}

(* C13: if reading the existing table fails, or an unexpected error occurs *)
(* while combining, the run persists exactly the filtered new rows, the    *)
(* existing content being discarded, and goes on to the next pair.         *)
C13_MergeFailureWritesNewRows ==
    (ReachedTheMerge
     /\ (ReadOfExistingFails(fileAtStart) \/ mergePath = "exception"))
    => /\ outcome = "saved"
       /\ file.rows = to_csv(new_data)

(* the cases in which the reader gives no cursor whatever the clock says:  *)
(* no file, no read permission, a required column missing, no row whose    *)
(* timestamp parses, or a maximum parsed timestamp before year 2000        *)
ReaderGivesUp(f) ==
    \/ ~f.exists
    \/ ~f.readable
    \/ ~(ExpectedColumns \subseteq f.header)
    \/ \A i \in 1..Len(f.rows) : ParseDate(f.rows[i].Date, Interval(label)) = None
    \/ \A i \in 1..Len(f.rows) :
           ParseDate(f.rows[i].Date, Interval(label)) # None
               => ParseDate(f.rows[i].Date, Interval(label))[1] < 0

(* C14: get_last_date_or_none returns None for a missing file, a file      *)
(* without read permission, a missing required column, zero rows after the *)
(* unparseable timestamps are dropped, and a maximum parsed timestamp      *)
(* before year 2000; each of them leads the caller to the cold-fetch       *)
(* window, which starts at now - max_days.                                 *)
C14_ReaderFailsSoft ==
    (pc # "read" /\ ReaderGivesUp(fileAtStart)) =>
        /\ last_date = None
        /\ start_date # None => start_date[1] = now - Days(MaxDays(label))
        /\ request # None => request[1].start = Day(now) - MaxDays(label)

(* a file whose only parseable timestamp is of the year 1999 was read and  *)
(* the cold window was requested                                           *)
C14_Witness ==
    /\ StructurallyValid(fileAtStart)
    /\ ValidDates(fileAtStart.rows, Interval(label)) # {}
    /\ SetMax(ValidDates(fileAtStart.rows, Interval(label))) < 0
    /\ last_date = None
    /\ request # None
    /\ request[1].start = Day(now) - MaxDays(label)

(* C15: when the read-back after the write fails or lacks a required       *)
(* column, save_and_verify_data only reports: the loop body is left as     *)
(* after a verified save, and the file on disk is what the write produced, *)
(* not what the run found.                                                 *)
C15_VerifyFailureIsReportOnly ==
    (report \in {"verify_failed", "invalid_columns"}) =>
        /\ Saved
        /\ file.exists
        /\ file.header = ExpectedColumns
        /\ file.rows = to_csv(combined)
        /\ fileAfter[Len(fileAfter)].file = file

(* the read-back failed after a write that changed an existing file *)
C15_Witness ==
    /\ Saved
    /\ report = "verify_failed"
    /\ fileAtStart.exists
    /\ file.rows # fileAtStart.rows

(* lines 207-212 have been executed for the pair in this invocation *)
PastFilter ==
    \/ pc \in {"load", "merge", "save"}
    \/ pc = "done" /\ outcome \notin {"pending", "no_data"}

(* the rows a and b carry the same timestamp and the same values *)
SameBar(a, b) == a.Date.t = b.Date.t /\ a.v = b.v

(* C16: with a cursor L, every fetched row passed to the merge has a       *)
(* timestamp strictly greater than L, the cursor's own timestamp and not   *)
(* the start of the overlap window: the rows at or before L are dropped    *)
(* and the rows after L are kept, in order. Without a cursor no fetched    *)
(* row is dropped.                                                         *)
C16_PostFetchFilter ==
    PastFilter =>
        IF last_date # None
        THEN LET after == SelectSeq(fetched,
                              LAMBDA r : r.Date.k # "bad" /\ r.Date.t > last_date[1])
             IN /\ \A i \in 1..Len(new_data) :
                       /\ new_data[i].Date.k = "ts"
                       /\ new_data[i].Date.t > last_date[1]
                /\ Len(new_data) = Len(after)
                /\ \A i \in 1..Len(after) : SameBar(new_data[i], after[i])
        ELSE /\ Len(new_data) = Len(fetched)
             /\ \A i \in 1..Len(fetched) : SameBar(new_data[i], fetched[i])

(* a cursor run whose window returned a row at L, inside the overlap, and  *)
(* a row after L: only the second reached the merge                        *)
C16_Witness ==
    /\ PastFilter
    /\ last_date # None
    /\ \E i \in 1..Len(fetched) : fetched[i].Date.t = last_date[1]
    /\ \E i \in 1..Len(fetched) : fetched[i].Date.t > last_date[1]
    /\ Len(new_data) = 1
    /\ request[1].start < Day(last_date[1])

(* C17: with a cursor, when the filter removes every fetched row, the pair *)
(* is skipped: no merge, no write, and the file is as the run found it.    *)
C17_EmptyAfterFilterSkips ==
    /\ (/\ PastFilter
        /\ last_date # None
        /\ \A i \in 1..Len(fetched) : fetched[i].Date.t <= last_date[1])
       => (pc = "done" /\ outcome = "no_new_dates")
    /\ outcome = "no_new_dates" =>
           /\ last_date # None
           /\ new_data = <<>>
           /\ existing_df = None
           /\ combined = <<>>
           /\ mergePath = "none"
           /\ report = "none"
           /\ file = fileAtStart

(* the window of a cursor run returned rows, none of them after L *)
C17_Witness ==
    /\ outcome = "no_new_dates"
    /\ fetched # <<>>
    /\ fileAtStart.rows # <<>>
    /\ file = fileAtStart

(* C18: on every path the 4h start is never earlier than now - 729 days,   *)
(* and a computed start that is earlier is replaced by exactly             *)
(* now - 729 days; for daily and weekly the computed start is requested    *)
(* unchanged.                                                              *)
C18_ProviderCeilingClamp ==
    start_date # None =>
        LET computed == IF last_date = None
                        THEN now - Days(MaxDays(label))
                        ELSE last_date[1] - Days(OverlapDays(label))
            ceiling == now - Days(729)
        IN /\ IF Interval(label) = "4h"
              THEN /\ start_date[1] >= ceiling
                   /\ computed < ceiling => start_date[1] = ceiling
                   /\ computed >= ceiling => start_date[1] = computed
              ELSE start_date[1] = computed
           /\ request # None => request[1].start = Day(start_date[1])

(* a 4h cursor older than the ceiling: the request starts at now - 729 days *)
C18_Witness ==
    /\ Interval(label) = "4h"
    /\ last_date # None
    /\ last_date[1] - Days(OverlapDays(label)) < now - Days(729)
    /\ request # None
    /\ request[1].start = Day(now) - 729
    /\ fetched # <<>>

(* C19: on a valid file whose maximum parsed timestamp is L, the reader    *)
(* returns the cursor L for daily and weekly exactly when date(L) < today, *)
(* and for 4h exactly when date(L) < today, or date(L) = today and now is  *)
(* at or after the 09:30 session open of today; otherwise it returns no    *)
(* cursor. L is the maximum over the rows that parse, not the last row.    *)
(* Stated for the files whose bars are not later than now.                 *)
C19_FreshnessDecision ==
    (/\ pc # "read"
     /\ ValidWithLast(fileAtStart)
     /\ LastOf(fileAtStart) <= now) =>
        LET L == LastOf(fileAtStart)
            sessionOpen == Days(Day(now)) + MarketOpenMinute
            stale == IF Interval(label) = "4h"
                     THEN \/ Day(L) < Day(now)
                          \/ Day(L) = Day(now) /\ now >= sessionOpen
                     ELSE Day(L) < Day(now)
        IN last_date = IF stale THEN Some(L) ELSE None

(* C20 as stated: when a run with cursor L writes the file, every existing *)
(* row with a timestamp at or before L is in the persisted table with      *)
(* exactly the values it had, and every row added has a timestamp after L. *)
C20_ExistingRowsUntouched ==
    (Saved /\ last_date # None) =>
        LET before == fileAtStart.rows
            L == last_date[1]
        IN /\ \A i \in 1..Len(before) :
                  (/\ ParseDate(before[i].Date, Interval(label)) # None
                   /\ ParseDate(before[i].Date, Interval(label))[1] <= L)
                  => \E j \in 1..Len(file.rows) : file.rows[j] = before[i]
           /\ \A j \in 1..Len(file.rows) :
                  file.rows[j].Date \notin DatesOf(before)
                  => (file.rows[j].Date.k # "bad" /\ file.rows[j].Date.t > L)

(* C20 amended: when a run with cursor L writes the file and the merge     *)
(* raises no exception, every Date of the existing file is in the          *)
(* persisted table exactly once, with the values of the last existing row  *)
(* of that Date formatted to 2 decimals, whatever the provider returned    *)
(* for it; every other persisted row has a timestamp after L.              *)
C20_ExistingRowsFrozen ==
    (Saved /\ last_date # None /\ mergePath = "merged") =>
        LET before == fileAtStart.rows
            L == last_date[1]
        IN /\ \A d \in DatesOf(before) :
                  /\ Len(RowsAt(file.rows, d)) = 1
                  /\ RowsAt(file.rows, d)[1].v = Round2(LastRowAt(before, d).v)
           /\ \A j \in 1..Len(file.rows) :
                  file.rows[j].Date \notin DatesOf(before)
                  => (file.rows[j].Date.k # "bad" /\ file.rows[j].Date.t > L)

(* the provider returned a revision of the row at L and a row after L; the *)
(* file was written                                                        *)
C20_Witness ==
    /\ Saved
    /\ last_date # None
    /\ mergePath = "merged"
    /\ \E i \in 1..Len(fetched) :
           /\ fetched[i].Date.t = last_date[1]
           /\ fetched[i].v
                  # Round2(LastRowAt(fileAtStart.rows,
                                     DateString(last_date[1], label)).v)
    /\ \E j \in 1..Len(file.rows) : file.rows[j].Date.t > last_date[1]

(* C21: in every run of a sequence of runs, when the file the run finds    *)
(* has all required columns and can be read, and the merge raises no       *)
(* exception, every Date of that file is a Date of the file the run        *)
(* leaves: Dates are lost only with a file that lacks a column or cannot   *)
(* be read, or on a merge exception.                                       *)
C21_TimestampsOnlyGrow ==
    (StructurallyValid(fileAtStart) /\ mergePath # "exception") =>
        /\ file.exists
        /\ DatesOf(fileAtStart.rows) \subseteq DatesOf(file.rows)
        /\ \A k \in 2..Len(fileAfter) :
               (StructurallyValid(fileAfter[k - 1].file)
                /\ fileAfter[k].merge # "exception")
               => DatesOf(fileAfter[k - 1].file.rows)
                      \subseteq DatesOf(fileAfter[k].file.rows)

(* the second run of a sequence merged new Dates into a file with rows *)
C21_Witness ==
    /\ run = 2
    /\ Saved
    /\ mergePath = "merged"
    /\ fileAtStart.rows # <<>>
    /\ DatesOf(fileAtStart.rows) # DatesOf(file.rows)
    /\ DatesOf(fileAtStart.rows) \subseteq DatesOf(file.rows)

(* C22: a run that starts with the cursor L either leaves the file as it   *)
(* found it, or writes a file that the reader accepts and whose maximum    *)
(* timestamp is strictly greater than L; and of two runs of a sequence     *)
(* that both start with a cursor, the later one does not start with an     *)
(* earlier cursor.                                                         *)
C22_CursorProgress ==
    /\ last_date # None =>
           /\ last_date[1] = LastOf(fileAtStart)
           /\ \/ file = fileAtStart
              \/ /\ Saved
                 /\ ValidWithLast(file)
                 /\ LastOf(file) > last_date[1]
           /\ Saved => file # fileAtStart
    /\ \A j, k \in 1..Len(fileAfter) :
           (j < k /\ fileAfter[j].cursor # None /\ fileAfter[k].cursor # None)
           => fileAfter[k].cursor[1] >= fileAfter[j].cursor[1]

(* the first run of a sequence started with a cursor and wrote the file;   *)
(* the second run started with the later cursor the first one left         *)
C22_Witness ==
    /\ run = 2
    /\ Len(fileAfter) = 1
    /\ fileAfter[1].cursor # None
    /\ LastOf(fileAfter[1].file) > fileAfter[1].cursor[1]
    /\ last_date # None
    /\ last_date[1] = LastOf(fileAfter[1].file)

===========================================================================
